---- MODULE Spec2Model ----
(***************************************************************************)
(* Model of phase_portrait.py: main() reads two expression strings and the *)
(* numeric inputs, evaluates the expressions with Python's eval over a     *)
(* grid and inside the derivative callback of odeint, builds a Plotly      *)
(* figure with one animation frame per sample and Play/Pause buttons, and  *)
(* shows it; any exception is reported with st.error.                      *)
(*                                                                         *)
(* Floating-point numbers are records [k, v]:                              *)
(*   k = "ex"  : the finite value v, an integer the model tracks exactly   *)
(*   k = "inf" : infinity of sign v                                        *)
(*   k = "nan" : not a number                                              *)
(*   k = "unk" : a float whose value the model does not track (a          *)
(*               non-integral quotient, sin of a non-zero argument, pi)    *)
(* Python objects are records [t, f, n, a]: t the type name, f the name of *)
(* a numpy function, n the number of a scalar, a the cells of an ndarray   *)
(* in row-major order.                                                     *)
(***************************************************************************)
EXTENDS Integers, Sequences, FiniteSets, TLC

\* ------------------------------------------------------------- bounds
\* np.linspace(..., 20): points per axis (the program uses 20).
GridRes == 2
\* st.slider("Animation Speed (Frames)", 50, 200, 100): largest frame count.
MaxFrames == 4
\* Frames that may wait in the animation queue of the displayed chart.
MaxQueue == 5

\* ------------------------------------------------------------- numbers
range_val == 6

Ex(v) == [k |-> "ex", v |-> v]
NaN == [k |-> "nan", v |-> 0]
Inf(s) == [k |-> "inf", v |-> s]
Unk == [k |-> "unk", v |-> 0]

Sign(v) == IF v > 0 THEN 1 ELSE IF v < 0 THEN -1 ELSE 0

Abs(v) == IF v < 0 THEN -v ELSE v

IsNonFinite(p) == p.k \in {"nan", "inf"}

NumNeg(p) ==
  CASE p.k = "ex" -> Ex(-p.v)
    [] p.k = "inf" -> Inf(-p.v)
    [] OTHER -> p

\* IEEE-754 addition as numpy performs it (no exception; a warning at most).
NumAdd(p, q) ==
  CASE p.k = "nan" \/ q.k = "nan" -> NaN
    [] p.k = "inf" /\ q.k = "inf" -> IF p.v = q.v THEN p ELSE NaN
    [] p.k = "inf" -> p
    [] q.k = "inf" -> q
    [] p.k = "unk" \/ q.k = "unk" -> Unk
    [] OTHER -> Ex(p.v + q.v)

NumSub(p, q) == NumAdd(p, NumNeg(q))

NumMul(p, q) ==
  CASE p.k = "nan" \/ q.k = "nan" -> NaN
    [] p.k = "inf" /\ q.k = "inf" -> Inf(p.v * q.v)
    [] p.k = "inf" /\ q.k = "ex" -> IF q.v = 0 THEN NaN ELSE Inf(p.v * Sign(q.v))
    [] q.k = "inf" /\ p.k = "ex" -> IF p.v = 0 THEN NaN ELSE Inf(q.v * Sign(p.v))
    [] p.k = "unk" \/ q.k = "unk" -> Unk
    [] OTHER -> Ex(p.v * q.v)

\* IEEE-754 division: x/0 is an infinity, 0/0 is NaN, nothing is raised.
NumDiv(p, q) ==
  CASE p.k = "nan" \/ q.k = "nan" -> NaN
    [] p.k = "inf" /\ q.k = "inf" -> NaN
    [] p.k = "inf" /\ q.k = "ex" -> Inf(IF q.v < 0 THEN -p.v ELSE p.v)
    [] q.k = "inf" /\ p.k = "ex" -> Ex(0)
    [] p.k = "unk" \/ q.k = "unk" -> Unk
    [] p.k = "inf" \/ q.k = "inf" -> Unk
    [] q.v = 0 -> IF p.v = 0 THEN NaN ELSE Inf(Sign(p.v))
    [] Abs(p.v) % Abs(q.v) = 0 -> Ex(Sign(p.v) * Sign(q.v) * (Abs(p.v) \div Abs(q.v)))
    [] OTHER -> Unk

RECURSIVE IntRoot(_, _)
IntRoot(v, r) == IF (r + 1) * (r + 1) > v THEN r ELSE IntRoot(v, r + 1)

\* np.sqrt: NaN for a negative argument (a warning, no exception).
NumSqrt(p) ==
  CASE p.k = "nan" -> NaN
    [] p.k = "inf" -> IF p.v > 0 THEN p ELSE NaN
    [] p.k = "unk" -> Unk
    [] p.v < 0 -> NaN
    [] IntRoot(p.v, 0) * IntRoot(p.v, 0) = p.v -> Ex(IntRoot(p.v, 0))
    [] OTHER -> Unk

\* np.sin, np.cos, np.tan: NaN at an infinity, exact at 0 only.
NumTrig(f, p) ==
  CASE p.k = "nan" \/ p.k = "inf" -> NaN
    [] p.k = "ex" /\ p.v = 0 -> Ex(IF f = "cos" THEN 1 ELSE 0)
    [] OTHER -> Unk

NumExp(p) ==
  CASE p.k = "nan" -> NaN
    [] p.k = "inf" -> IF p.v > 0 THEN p ELSE Ex(0)
    [] p.k = "ex" /\ p.v = 0 -> Ex(1)
    [] OTHER -> Unk

\* The numpy function named f applied to one number.
NumApply(f, p) ==
  CASE f = "sqrt" -> NumSqrt(p)
    [] f = "exp" -> NumExp(p)
    [] OTHER -> NumTrig(f, p)

NumBin(o, p, q) ==
  CASE o = "+" -> NumAdd(p, q)
    [] o = "-" -> NumSub(p, q)
    [] o = "*" -> NumMul(p, q)
    [] OTHER -> NumDiv(p, q)

\* ------------------------------------------------------------- Python objects
PyObj(t, f, n, a) == [t |-> t, f |-> f, n |-> n, a |-> a]
PyInt(v) == PyObj("int", "", Ex(v), <<>>)
PyFloat(p) == PyObj("float", "", p, <<>>)
NpFloat(p) == PyObj("numpy.float64", "", p, <<>>)
NdArray(a) == PyObj("numpy.ndarray", "", Ex(0), a)
UFunc(f) == PyObj("numpy.ufunc", f, Ex(0), <<>>)
PyStr(s) == PyObj("str", s, Ex(0), <<>>)
PyTuple(a) == PyObj("tuple", "", Ex(0), a)
PyType(f) == PyObj("type", f, Ex(0), <<>>)
PyNone == PyObj("NoneType", "", Ex(0), <<>>)

PyScalarTypes == {"int", "float"}
NumericTypes == {"int", "float", "numpy.float64", "numpy.ndarray"}

\* An exception: its class and the words of str(e).
Exc(type, msg) == [type |-> type, msg |-> msg]
NoExc == Exc("", <<>>)
Quoted(s) == "'" \o s \o "'"

\* The outcome of evaluating an expression: the value or the exception, and
\* the locals mapping as the evaluation left it.
Value(v, sc) == [raised |-> FALSE, exc |-> NoExc, val |-> v, sc |-> sc]
Raise(e, sc) == [raised |-> TRUE, exc |-> e, val |-> PyNone, sc |-> sc]

\* ------------------------------------------------------------- the grid
Cells == 1 .. (GridRes * GridRes)
\* np.linspace(-range_val, range_val, GridRes)[i], i from 0 (exact when
\* GridRes - 1 divides 2 * range_val).
Linspace(i) == (2 * range_val * i) \div (GridRes - 1) - range_val
\* np.meshgrid(x, y): X[r, c] = x[c], Y[r, c] = y[r]; cell (r, c) is r*GridRes+c+1.
MeshX == NdArray([c \in Cells |-> Ex(Linspace((c - 1) % GridRes))])
MeshY == NdArray([c \in Cells |-> Ex(Linspace((c - 1) \div GridRes))])
GridShape == PyTuple(<<Ex(GridRes), Ex(GridRes)>>)

\* ------------------------------------------------------------- eval
\* The globals given to every eval: {"__builtins__": None}.
EvalGlobals == [n \in {"__builtins__"} |-> PyNone]

\* LOAD_NAME: locals, then globals, then builtins; builtins is None here, so
\* the last lookup is None[name], a TypeError.
LoadName(id, sc) ==
  IF id \in DOMAIN sc THEN Value(sc[id], sc)
  ELSE IF id \in DOMAIN EvalGlobals THEN Value(EvalGlobals[id], sc)
  ELSE Raise(Exc("TypeError",
                 <<"'NoneType'", "object", "is", "not", "subscriptable">>), sc)

\* getattr on the objects an expression can reach.
GetAttr(v, attr, sc) ==
  CASE attr = "real" /\ v.t \in NumericTypes -> Value(v, sc)
    [] attr = "shape" /\ v.t = "numpy.ndarray" -> Value(GridShape, sc)
    [] attr = "shape" /\ v.t = "numpy.float64" -> Value(PyTuple(<<>>), sc)
    [] attr = "ndim" /\ v.t = "numpy.ndarray" -> Value(PyInt(2), sc)
    [] attr = "ndim" /\ v.t = "numpy.float64" -> Value(PyInt(0), sc)
    [] attr = "__class__" -> Value(PyType(v.t), sc)
    [] OTHER -> Raise(Exc("AttributeError",
                 <<Quoted(v.t), "object", "has", "no", "attribute", Quoted(attr)>>), sc)

\* Calling an object with one argument: only the numpy functions are callable;
\* they work elementwise and return numpy values.
CallObj(fn, arg, sc) ==
  CASE fn.t # "numpy.ufunc" ->
         Raise(Exc("TypeError", <<Quoted(fn.t), "object", "is", "not", "callable">>), sc)
    [] arg.t = "numpy.ndarray" ->
         Value(NdArray([c \in DOMAIN arg.a |-> NumApply(fn.f, arg.a[c])]), sc)
    [] arg.t \in NumericTypes -> Value(NpFloat(NumApply(fn.f, arg.n)), sc)
    [] OTHER -> Raise(Exc("TypeError",
                 <<"ufunc", Quoted(fn.f), "not", "supported", "for", "the", "input", "types">>), sc)

\* A binary arithmetic operator. Two Python numbers follow Python's rules
\* (division by zero raises); with a numpy operand the operation is numpy's:
\* elementwise, broadcasting a scalar, never raising on a domain error.
BinOp(o, l, r, sc) ==
  CASE ~(l.t \in NumericTypes /\ r.t \in NumericTypes) ->
         Raise(Exc("TypeError", <<"unsupported", "operand", "type(s)", "for", o \o ":",
                                  Quoted(l.t), "and", Quoted(r.t)>>), sc)
    [] l.t \in PyScalarTypes /\ r.t \in PyScalarTypes ->
         IF o = "/" /\ r.n = Ex(0)
         THEN Raise(Exc("ZeroDivisionError", <<"division", "by", "zero">>), sc)
         ELSE IF o = "/" \/ l.t = "float" \/ r.t = "float"
              THEN Value(PyFloat(NumBin(o, l.n, r.n)), sc)
              ELSE Value(PyObj("int", "", NumBin(o, l.n, r.n), <<>>), sc)
    [] l.t = "numpy.ndarray" /\ r.t = "numpy.ndarray" ->
         Value(NdArray([c \in DOMAIN l.a |-> NumBin(o, l.a[c], r.a[c])]), sc)
    [] l.t = "numpy.ndarray" ->
         Value(NdArray([c \in DOMAIN l.a |-> NumBin(o, l.a[c], r.n)]), sc)
    [] r.t = "numpy.ndarray" ->
         Value(NdArray([c \in DOMAIN r.a |-> NumBin(o, l.n, r.a[c])]), sc)
    [] OTHER -> Value(NpFloat(NumBin(o, l.n, r.n)), sc)

\* Unary minus.
USub(v, sc) ==
  CASE v.t = "numpy.ndarray" -> Value(NdArray([c \in DOMAIN v.a |-> NumNeg(v.a[c])]), sc)
    [] v.t \in NumericTypes -> Value(PyObj(v.t, "", NumNeg(v.n), <<>>), sc)
    [] OTHER -> Raise(Exc("TypeError", <<"bad", "operand", "type", "for", "unary", "-:",
                                         Quoted(v.t)>>), sc)

\* bool(v): an array of more than one element has no truth value.
Truth(v, sc) ==
  CASE v.t = "numpy.ndarray" /\ Len(v.a) > 1 ->
         Raise(Exc("ValueError", <<"The", "truth", "value", "of", "an", "array", "with",
                                   "more", "than", "one", "element", "is", "ambiguous">>), sc)
    [] v.t = "numpy.ndarray" -> Value(PyInt(IF v.a[1] = Ex(0) THEN 0 ELSE 1), sc)
    [] v.t \in NumericTypes -> Value(PyInt(IF v.n = Ex(0) THEN 0 ELSE 1), sc)
    [] v.t = "NoneType" -> Value(PyInt(0), sc)
    [] OTHER -> Value(PyInt(1), sc)

\* The evaluation of a syntax tree, left to right, with the locals mapping sc;
\* a named expression (:=) stores into the locals mapping.
RECURSIVE EvalTree(_, _)
EvalTree(e, sc) ==
  CASE e.op = "Num" -> Value(PyInt(e.v), sc)
    [] e.op = "Str" -> Value(PyStr(e.s), sc)
    [] e.op = "Name" -> LoadName(e.id, sc)
    [] e.op = "Attribute" ->
         LET o == EvalTree(e.value, sc)
         IN IF o.raised THEN o ELSE GetAttr(o.val, e.attr, o.sc)
    [] e.op = "Call" ->
         LET fn == EvalTree(e.func, sc)
         IN IF fn.raised THEN fn
            ELSE LET arg == EvalTree(e.arg, fn.sc)
                 IN IF arg.raised THEN arg ELSE CallObj(fn.val, arg.val, arg.sc)
    [] e.op = "BinOp" ->
         LET l == EvalTree(e.left, sc)
         IN IF l.raised THEN l
            ELSE LET r == EvalTree(e.right, l.sc)
                 IN IF r.raised THEN r ELSE BinOp(e.o, l.val, r.val, r.sc)
    [] e.op = "UnaryOp" ->
         LET o == EvalTree(e.operand, sc)
         IN IF o.raised THEN o ELSE USub(o.val, o.sc)
    [] e.op = "NamedExpr" ->
         LET o == EvalTree(e.value, sc)
         IN IF o.raised THEN o ELSE Value(o.val, (e.target :> o.val) @@ o.sc)
    [] OTHER ->
         LET t == EvalTree(e.test, sc)
         IN IF t.raised THEN t
            ELSE LET b == Truth(t.val, t.sc)
                 IN IF b.raised THEN b
                    ELSE IF b.val.n = Ex(1) THEN EvalTree(e.body, t.sc)
                         ELSE EvalTree(e.orelse, t.sc)

\* ------------------------------------------------------------- expression texts
Num(v) == [op |-> "Num", v |-> v]
Str(s) == [op |-> "Str", s |-> s]
Name(id) == [op |-> "Name", id |-> id]
Attribute(value, attr) == [op |-> "Attribute", value |-> value, attr |-> attr]
Call(func, arg) == [op |-> "Call", func |-> func, arg |-> arg]
Bin(left, o, right) == [op |-> "BinOp", left |-> left, o |-> o, right |-> right]
Minus(operand) == [op |-> "UnaryOp", operand |-> operand]
NamedExpr(target, value) == [op |-> "NamedExpr", target |-> target, value |-> value]
IfExp(body, test, orelse) == [op |-> "IfExp", test |-> test, body |-> body, orelse |-> orelse]

\* The texts typed into the two st.text_input boxes.
Texts ==
  {"y", "-x", "5", "0", "sin(x)", "pi*cos(x)", "tan(x) + exp(y)", "sqrt(x)",
   "1/(x+y)", "1/0", "log(x)", "sinn(x)", "os.system('x')", "x.real", "x.shape",
   "1/x.ndim", "sin.__class__", "x = 1", "(y := 0)", "x if 1 else sinn(x)"}

\* Texts that are no expression: compiling them in eval mode is a SyntaxError.
NotExpressions == {"x = 1"}

\* The syntax tree the compiler builds for each text.
Parse(text) ==
  CASE text = "y" -> Name("y")
    [] text = "-x" -> Minus(Name("x"))
    [] text = "5" -> Num(5)
    [] text = "0" -> Num(0)
    [] text = "sin(x)" -> Call(Name("sin"), Name("x"))
    [] text = "pi*cos(x)" -> Bin(Name("pi"), "*", Call(Name("cos"), Name("x")))
    [] text = "tan(x) + exp(y)" ->
         Bin(Call(Name("tan"), Name("x")), "+", Call(Name("exp"), Name("y")))
    [] text = "sqrt(x)" -> Call(Name("sqrt"), Name("x"))
    [] text = "1/(x+y)" -> Bin(Num(1), "/", Bin(Name("x"), "+", Name("y")))
    [] text = "1/0" -> Bin(Num(1), "/", Num(0))
    [] text = "log(x)" -> Call(Name("log"), Name("x"))
    [] text = "sinn(x)" -> Call(Name("sinn"), Name("x"))
    [] text = "os.system('x')" -> Call(Attribute(Name("os"), "system"), Str("x"))
    [] text = "x.real" -> Attribute(Name("x"), "real")
    [] text = "x.shape" -> Attribute(Name("x"), "shape")
    [] text = "1/x.ndim" -> Bin(Num(1), "/", Attribute(Name("x"), "ndim"))
    [] text = "sin.__class__" -> Attribute(Name("sin"), "__class__")
    [] text = "(y := 0)" -> NamedExpr("y", Num(0))
    [] text = "x if 1 else sinn(x)" ->
         IfExp(Name("x"), Num(1), Call(Name("sinn"), Name("x")))

\* eval(text, {"__builtins__": None}, sc): compile, then evaluate.
Eval(text, sc) ==
  IF text \in NotExpressions
  THEN Raise(Exc("SyntaxError", <<"invalid", "syntax", "(<string>,", "line", "1)">>), sc)
  ELSE EvalTree(Parse(text), sc)

\* ------------------------------------------------------------- main()
\* The dictionary local_scope as main() builds it.
ScopeNames == {"sin", "cos", "tan", "exp", "sqrt", "pi", "x", "y"}
InitialScope ==
  [n \in ScopeNames |->
     CASE n = "x" -> MeshX
       [] n = "y" -> MeshY
       [] n = "pi" -> PyFloat(Unk)
       [] OTHER -> UFunc(n)]

VARIABLES
  eq_x, eq_y,        \* the two expression texts
  frames, x0, y0,    \* the frame count and the initial condition
  local_scope,       \* the dictionary shared by every eval
  U, V,              \* the sampled components
  pc,                \* the statement of main() to execute next
  exc,               \* the exception in flight
  ode_buf,           \* odeint's result rows so far
  last_call,         \* the most recent call of system_func
  sol,               \* the trajectory returned by odeint
  fig_traces,        \* names of the traces of fig, in order
  fig_path,          \* the points of the trace 'Trajectory'
  animation_frames,  \* the list built by the frame loop
  fig_frames,        \* fig.frames
  displayed,         \* st.plotly_chart has shown fig
  errors,            \* the messages shown by st.error
  trace,             \* the stages of main() entered, in order
  current_frame,     \* name of the frame the chart shows ("" before any)
  queue,             \* names of the frames waiting to be animated
  last_press         \* the latest button press: the button, the frame shown
                     \* and the number of frames waiting then, the frames it enqueued

vars == <<eq_x, eq_y, frames, x0, y0, local_scope, U, V, pc, exc, ode_buf, last_call,
          sol, fig_traces, fig_path, animation_frames, fig_frames, displayed, errors,
          trace, current_frame, queue, last_press>>

inputs == <<eq_x, eq_y, frames, x0, y0>>
playback == <<current_frame, queue, last_press>>
figure == <<fig_traces, fig_path, animation_frames, fig_frames>>

Unassigned == PyObj("<unassigned>", "", Ex(0), <<>>)
NoPress == [button |-> "", at |-> "", pending |-> 0, enqueued |-> <<>>]
NoCall == [made |-> FALSE, state |-> <<>>, raised |-> FALSE, d |-> <<>>]

\* Values offered by the two st.number_input boxes (default 2.0 and 0.0).
InitialX == {0, 2}
InitialY == {-2, 0}

Init ==
  /\ eq_x \in Texts
  /\ eq_y \in Texts
  /\ frames \in 2 .. MaxFrames
  /\ x0 \in InitialX
  /\ y0 \in InitialY
  /\ local_scope = InitialScope
  /\ U = Unassigned
  /\ V = Unassigned
  /\ pc = "sample_U"
  /\ exc = NoExc
  /\ ode_buf = <<>>
  /\ last_call = NoCall
  /\ sol = <<>>
  /\ fig_traces = <<>>
  /\ fig_path = <<>>
  /\ animation_frames = <<>>
  /\ fig_frames = <<>>
  /\ displayed = FALSE
  /\ errors = <<>>
  /\ trace = <<>>
  /\ current_frame = ""
  /\ queue = <<>>
  /\ last_press = NoPress

\* An exception raised inside the try block: control goes to the handler.
Throw(e) == exc' = e /\ pc' = "except"

\* U = eval(eq_x, {"__builtins__": None}, local_scope)
SampleU ==
  /\ pc = "sample_U"
  /\ LET r == Eval(eq_x, local_scope)
     IN /\ local_scope' = r.sc
        /\ IF r.raised
           THEN Throw(r.exc) /\ U' = U
           ELSE U' = r.val /\ pc' = "sample_V" /\ exc' = exc
  /\ trace' = Append(trace, "sample")
  /\ UNCHANGED <<inputs, V, ode_buf, last_call, sol, figure, displayed, errors, playback>>

\* V = eval(eq_y, {"__builtins__": None}, local_scope)
SampleV ==
  /\ pc = "sample_V"
  /\ LET r == Eval(eq_y, local_scope)
     IN /\ local_scope' = r.sc
        /\ IF r.raised
           THEN Throw(r.exc) /\ V' = V
           ELSE V' = r.val /\ pc' = "odeint" /\ exc' = exc
  /\ UNCHANGED <<inputs, U, ode_buf, last_call, sol, figure, displayed, errors, trace,
                 playback>>

\* system_func(state, t) called with the shared dictionary ls: step_scope is a
\* copy of ls with x and y rebound; both evals use that one copy. The result
\* holds the outcome and the shared dictionary as the call leaves it.
system_func(state, ls) ==
  LET step_scope == ("x" :> NpFloat(state[1])) @@ ("y" :> NpFloat(state[2])) @@ ls
      dxdt == Eval(eq_x, step_scope)
      dydt == Eval(eq_y, dxdt.sc)
  IN IF dxdt.raised
     THEN [raised |-> TRUE, exc |-> dxdt.exc, d |-> <<>>, shared |-> ls]
     ELSE IF dydt.raised
          THEN [raised |-> TRUE, exc |-> dydt.exc, d |-> <<>>, shared |-> ls]
          ELSE [raised |-> FALSE, exc |-> NoExc, d |-> <<dxdt.val, dydt.val>>,
                shared |-> ls]

\* t_span = np.linspace(0, t_max, frames); odeint starts from [x0, y0], which
\* is the first row of its result.
OdeintBegin ==
  /\ pc = "odeint"
  /\ ode_buf' = <<<<Ex(x0), Ex(y0)>>>>
  /\ pc' = "solve"
  /\ trace' = Append(trace, "integrate")
  /\ UNCHANGED <<inputs, local_scope, U, V, exc, last_call, sol, figure, displayed,
                 errors, playback>>

\* odeint converts what system_func returns to an array of two floats.
OdeAccepts(d) == \A i \in 1 .. 2 : d[i].t \in {"int", "float", "numpy.float64"}
OdeRejects(d) ==
  LET i == CHOOSE j \in 1 .. 2 : ~(d[j].t \in {"int", "float", "numpy.float64"})
  IN Exc("TypeError", <<"float()", "argument", "must", "be", "a", "string", "or", "a",
                        "real", "number,", "not", Quoted(d[i].t)>>)

\* The row that follows row s when the derivative there is d. The solver is
\* external; it is represented by one call of system_func per requested time
\* and a step of unit length along the derivative.
OdeAdvance(s, d) == <<NumAdd(s[1], d[1].n), NumAdd(s[2], d[2].n)>>

\* Variant of OdeintStep: an exception in system_func ends the integration
\* early and the rows computed so far are returned.
OdeintStepPartial ==
  /\ pc = "solve"
  /\ Len(ode_buf) < frames
  /\ LET s == ode_buf[Len(ode_buf)]
         r == system_func(s, local_scope)
     IN /\ local_scope' = r.shared
        /\ last_call' = [made |-> TRUE, state |-> s, raised |-> r.raised, d |-> r.d]
        /\ IF r.raised \/ ~OdeAccepts(r.d)
           THEN sol' = ode_buf /\ pc' = "quiver" /\ UNCHANGED <<ode_buf, exc>>
           ELSE /\ ode_buf' = Append(ode_buf, OdeAdvance(s, r.d))
                /\ UNCHANGED <<pc, exc, sol>>
  /\ UNCHANGED <<inputs, U, V, figure, displayed, errors, trace, playback>>

\* One step of odeint: a call of system_func at the newest row. An exception
\* raised by the call leaves odeint; nothing is returned.
OdeintStep ==
  /\ pc = "solve"
  /\ Len(ode_buf) < frames
  /\ LET s == ode_buf[Len(ode_buf)]
         r == system_func(s, local_scope)
     IN /\ local_scope' = r.shared
        /\ last_call' = [made |-> TRUE, state |-> s, raised |-> r.raised, d |-> r.d]
        /\ IF r.raised
           THEN Throw(r.exc) /\ ode_buf' = ode_buf
           ELSE IF ~OdeAccepts(r.d)
                THEN Throw(OdeRejects(r.d)) /\ ode_buf' = ode_buf
                ELSE /\ ode_buf' = Append(ode_buf, OdeAdvance(s, r.d))
                     /\ UNCHANGED <<pc, exc>>
  /\ UNCHANGED <<inputs, U, V, sol, figure, displayed, errors, trace, playback>>

\* sol = odeint(system_func, [x0, y0], t_span): one row per requested time.
OdeintReturn ==
  /\ pc = "solve"
  /\ Len(ode_buf) = frames
  /\ sol' = ode_buf
  /\ pc' = "quiver"
  /\ UNCHANGED <<inputs, local_scope, U, V, exc, ode_buf, last_call, figure, displayed,
                 errors, trace, playback>>

\* ff.create_quiver(x, y, U, V, ...) first compares len() of its four data
\* arguments: the exception it raises for u and v, or NoExc.
HasLen(v) == v.t \in {"numpy.ndarray", "tuple", "str"}
NoLen(v) == Exc("TypeError", <<"object", "of", "type", Quoted(v.t), "has", "no", "len()">>)
create_quiver(u, v) ==
  CASE ~HasLen(u) -> NoLen(u)
    [] ~HasLen(v) -> NoLen(v)
    [] OTHER -> NoExc

\* fig = ff.create_quiver(x, y, U, V, ..., name='Vector Field', ...)
CreateQuiver ==
  /\ pc = "quiver"
  /\ IF create_quiver(U, V) # NoExc
     THEN Throw(create_quiver(U, V)) /\ fig_traces' = fig_traces
     ELSE fig_traces' = <<"Vector Field">> /\ pc' = "trajectory" /\ exc' = exc
  /\ trace' = Append(trace, "build")
  /\ UNCHANGED <<inputs, local_scope, U, V, ode_buf, last_call, sol, fig_path,
                 animation_frames, fig_frames, displayed, errors, playback>>

\* fig.add_trace(go.Scatter(x=sol[:, 0], y=sol[:, 1], ..., name='Trajectory'))
AddTrajectory ==
  /\ pc = "trajectory"
  /\ fig_traces' = Append(fig_traces, "Trajectory")
  /\ fig_path' = sol
  /\ animation_frames' = <<>>
  /\ pc' = "frames"
  /\ UNCHANGED <<inputs, local_scope, U, V, exc, ode_buf, last_call, sol, fig_frames,
                 displayed, errors, trace, playback>>

\* str(i) for a non-negative integer: its decimal digits.
Digit(d) == SubSeq(<<"0", "1", "2", "3", "4", "5", "6", "7", "8", "9">>, d + 1, d + 1)[1]
RECURSIVE str(_)
str(i) == IF i < 10 THEN Digit(i) ELSE str(i \div 10) \o Digit(i % 10)

\* go.Frame(data=[go.Scatter(x=[sol[i, 0]], y=[sol[i, 1]], ...)], name=str(i))
Frame(i) == [name |-> str(i), x |-> <<sol[i + 1][1]>>, y |-> <<sol[i + 1][2]>>]

\* Variant of TSpanLen: the loop stops one sample early.
TSpanLenShort == frames - 1

\* len(t_span)
TSpanLen == frames

\* One pass of: for i in range(len(t_span)): animation_frames.append(...)
AppendFrame ==
  /\ pc = "frames"
  /\ Len(animation_frames) < TSpanLen
  /\ animation_frames' = Append(animation_frames, Frame(Len(animation_frames)))
  /\ UNCHANGED <<inputs, local_scope, U, V, pc, exc, ode_buf, last_call, sol, fig_traces,
                 fig_path, fig_frames, displayed, errors, trace, playback>>

\* After the loop: fig.frames = animation_frames, the trace 'Particle' and
\* update_layout with the Play and Pause buttons.
FinishFigure ==
  /\ pc = "frames"
  /\ Len(animation_frames) = TSpanLen
  /\ fig_frames' = animation_frames
  /\ fig_traces' = Append(fig_traces, "Particle")
  /\ pc' = "chart"
  /\ UNCHANGED <<inputs, local_scope, U, V, exc, ode_buf, last_call, sol, fig_path,
                 animation_frames, displayed, errors, trace, playback>>

\* st.plotly_chart(fig, use_container_width=True)
PlotlyChart ==
  /\ pc = "chart"
  /\ displayed' = TRUE
  /\ pc' = "displayed"
  /\ trace' = Append(trace, "display")
  /\ UNCHANGED <<inputs, local_scope, U, V, exc, ode_buf, last_call, sol, figure, errors,
                 playback>>

\* Variant of Except: the handler reports nothing.
ExceptSilent ==
  /\ pc = "except"
  /\ pc' = "reported"
  /\ UNCHANGED <<inputs, local_scope, U, V, exc, ode_buf, last_call, sol, figure,
                 displayed, errors, trace, playback>>

\* except Exception as e: st.error(f"Equation Error: {e}")
Except ==
  /\ pc = "except"
  /\ errors' = Append(errors, <<"Equation", "Error:">> \o exc.msg)
  /\ pc' = "reported"
  /\ UNCHANGED <<inputs, local_scope, U, V, exc, ode_buf, last_call, sol, figure,
                 displayed, trace, playback>>

\* ------------------------------------------------------------- the buttons
\* Names of all frames of the chart, in order (animate called with None).
AllFrames == [i \in 1 .. Len(fig_frames) |-> fig_frames[i].name]

\* Position (from 0) of the frame named n in list, or -1.
IndexOf(n, list) ==
  IF \E i \in 1 .. Len(list) : list[i] = n
  THEN (CHOOSE i \in 1 .. Len(list) : list[i] = n /\ \A j \in 1 .. i - 1 : list[j] # n) - 1
  ELSE -1

\* Variant of PlayList: fromcurrent is not set.
PlayListFromStart == AllFrames

\* The frames a press of Play enqueues: args=[None, dict(..., fromcurrent=True)].
\* With fromcurrent, when the chart shows a frame that is neither the first
\* nor the last, only the frames after it are taken.
PlayList ==
  LET idx == IndexOf(current_frame, AllFrames)
  IN IF current_frame # "" /\ idx > 0 /\ idx < Len(AllFrames) - 1
     THEN SubSeq(AllFrames, idx + 2, Len(AllFrames))
     ELSE AllFrames

\* Button "Play": method animate, default mode: the frames are put behind the
\* ones already waiting.
Play ==
  /\ pc = "displayed"
  /\ Len(queue) + Len(PlayList) <= MaxQueue
  /\ queue' = queue \o PlayList
  /\ last_press' = [button |-> "Play", at |-> current_frame, pending |-> Len(queue),
                    enqueued |-> PlayList]
  /\ UNCHANGED <<inputs, local_scope, U, V, pc, exc, ode_buf, last_call, sol, figure,
                 displayed, errors, trace, current_frame>>

\* Button "Pause": args=[[None], dict(..., mode="immediate", ...)]: no frame
\* is named, and the waiting frames are discarded.
Pause ==
  /\ pc = "displayed"
  /\ queue' = <<>>
  /\ last_press' = [button |-> "Pause", at |-> current_frame, pending |-> Len(queue),
                    enqueued |-> <<>>]
  /\ UNCHANGED <<inputs, local_scope, U, V, pc, exc, ode_buf, last_call, sol, figure,
                 displayed, errors, trace, current_frame>>

\* The chart shows the next waiting frame.
ShowNextFrame ==
  /\ pc = "displayed"
  /\ queue # <<>>
  /\ current_frame' = Head(queue)
  /\ queue' = Tail(queue)
  /\ UNCHANGED <<inputs, local_scope, U, V, pc, exc, ode_buf, last_call, sol, figure,
                 displayed, errors, trace, last_press>>

Next ==
  \/ SampleU
  \/ SampleV
  \/ OdeintBegin
  \/ OdeintStep
  \/ OdeintReturn
  \/ CreateQuiver
  \/ AddTrajectory
  \/ AppendFrame
  \/ FinishFigure
  \/ PlotlyChart
  \/ Except
  \/ Play
  \/ Pause
  \/ ShowNextFrame

Spec == Init /\ [][Next]_vars

\* ------------------------------------------------------------- properties
\* The identifiers a syntax tree loads.
RECURSIVE Identifiers(_)
Identifiers(e) ==
  CASE e.op = "Name" -> {e.id}
    [] e.op = "Attribute" -> Identifiers(e.value)
    [] e.op = "Call" -> Identifiers(e.func) \cup Identifiers(e.arg)
    [] e.op = "BinOp" -> Identifiers(e.left) \cup Identifiers(e.right)
    [] e.op = "UnaryOp" -> Identifiers(e.operand)
    [] e.op = "NamedExpr" -> Identifiers(e.value)
    [] e.op = "IfExp" -> Identifiers(e.test) \cup Identifiers(e.body) \cup Identifiers(e.orelse)
    [] OTHER -> {}

\* Whether a syntax tree holds an attribute access or an assignment.
RECURSIVE HasAttributeOrAssignment(_)
HasAttributeOrAssignment(e) ==
  CASE e.op \in {"Attribute", "NamedExpr"} -> TRUE
    [] e.op = "Call" -> HasAttributeOrAssignment(e.func) \/ HasAttributeOrAssignment(e.arg)
    [] e.op = "BinOp" -> HasAttributeOrAssignment(e.left) \/ HasAttributeOrAssignment(e.right)
    [] e.op = "UnaryOp" -> HasAttributeOrAssignment(e.operand)
    [] e.op = "IfExp" -> \/ HasAttributeOrAssignment(e.test)
                         \/ HasAttributeOrAssignment(e.body)
                         \/ HasAttributeOrAssignment(e.orelse)
    [] OTHER -> FALSE

\* The allow-list as the specification states it.
StatedAllowList == {"pi", "sin", "cos", "tan", "exp", "sqrt", "log", "x", "y"}

IdentifiersOf(text) == IF text \in NotExpressions THEN {} ELSE Identifiers(Parse(text))
Offending(text) == IdentifiersOf(text) \ StatedAllowList
Mentions(msg, id) == \E i \in 1 .. Len(msg) : msg[i] \in {id, Quoted(id)}
UnknownIdentifier == Exc("TypeError", <<"'NoneType'", "object", "is", "not", "subscriptable">>)
Finite(state) == \A i \in 1 .. 2 : ~IsNonFinite(state[i])
Stages == <<"sample", "integrate", "build", "display">>
IsPrefix(a, b) == Len(a) <= Len(b) /\ SubSeq(b, 1, Len(a)) = a
Label(i) == <<"0", "1", "2", "3", "4", "5", "6", "7", "8", "9", "10", "11">>[i + 1]

\* C1: when eq_x or eq_y references an identifier outside the allow-list, no
\* trajectory and no chart is produced; when the evaluation of eq_x fails over
\* such an identifier, the reported message mentions it.
C1_UnknownIdentifierNamed ==
  /\ (Offending(eq_x) \cup Offending(eq_y) # {}) =>
        sol = <<>> /\ fig_traces = <<>> /\ ~displayed
  /\ (Offending(eq_x) # {} /\ U = Unassigned /\ pc = "reported") =>
        \E id \in Offending(eq_x) : Mentions(errors[1], id)

\* C2: an expression built only from pi, sin, cos, tan, exp, sqrt, log, x and y
\* never fails with the unknown-identifier error, over the grid or at a state.
C2_AllowListResolves ==
  (IdentifiersOf(eq_x) \cup IdentifiersOf(eq_y) \subseteq StatedAllowList) =>
     exc # UnknownIdentifier

\* C3: an expression with an attribute access, an assignment or statement
\* syntax never yields a vector-field component or a derivative.
C3_Rejects(text) ==
  text \in NotExpressions \/ HasAttributeOrAssignment(Parse(text))
C3_AttributeAccessRejected ==
  /\ C3_Rejects(eq_x) => U = Unassigned
  /\ C3_Rejects(eq_y) => V = Unassigned
  /\ (C3_Rejects(eq_x) \/ C3_Rejects(eq_y)) => (last_call.made => last_call.raised)

\* C4: after any call of system_func the shared local_scope is as main() built
\* it (x and y the grid arrays), and the call's two results are the expressions
\* evaluated with x and y bound to that call's state.
C4_AtState(state) ==
  ("x" :> NpFloat(state[1])) @@ ("y" :> NpFloat(state[2])) @@ InitialScope
C4_ScopeIsolated ==
  last_call.made =>
    /\ local_scope = InitialScope
    /\ ~last_call.raised =>
         /\ last_call.d[1] = Eval(eq_x, C4_AtState(last_call.state)).val
         /\ last_call.d[2] = Eval(eq_y, C4_AtState(last_call.state)).val

\* C5: once sampled, U and V are arrays of the grid's shape; a constant
\* expression gives an array filled with the constant.
C5_GridShaped(w) ==
  w # Unassigned => w.t = "numpy.ndarray" /\ DOMAIN w.a = Cells
C5_FieldHasGridShape ==
  /\ C5_GridShaped(U) /\ C5_GridShaped(V)
  /\ (U # Unassigned /\ eq_x = "5") => \A c \in Cells : U.a[c] = Ex(5)

\* C6: a domain error in a grid cell leaves NaN or infinity in the cell and
\* raises nothing; in a call of system_func at a finite state it raises, so
\* no derivative and no trajectory sample is NaN or infinite.
C6_DomainErrorByMode ==
  /\ (eq_x \in {"sqrt(x)", "1/(x+y)"} /\ trace # <<>> /\ exc = NoExc) =>
        U.t = "numpy.ndarray" /\ \E c \in Cells : IsNonFinite(U.a[c])
  /\ (last_call.made /\ ~last_call.raised /\ Finite(last_call.state)) =>
        \A i \in 1 .. 2 : last_call.d[i].t \in NumericTypes => ~IsNonFinite(last_call.d[i].n)
  /\ \A i \in 1 .. Len(sol) : Finite(sol[i])

\* C7: when a call of system_func raises, odeint returns nothing: there is no
\* trajectory, no trace or frame of the figure and no chart, and the run ends
\* with the exception's message reported.
C7_IntegrationAtomic ==
  /\ (last_call.made /\ last_call.raised) =>
       /\ sol = <<>> /\ fig_traces = <<>> /\ fig_path = <<>>
       /\ animation_frames = <<>> /\ fig_frames = <<>> /\ ~displayed
       /\ pc \in {"except", "reported"}
       /\ exc.msg # <<>>
       /\ pc = "reported" => errors = << <<"Equation", "Error:">> \o exc.msg >>
  /\ sol # <<>> => Len(sol) = frames
C7_Witness ==
  /\ last_call.made /\ last_call.raised
  /\ ode_buf # <<>>
  /\ pc = "reported"

\* C8: the stages run in the order sample, integrate, build, display; a
\* failure stops the run at its stage; a run ends either displayed with no
\* error, or with exactly one reported error and nothing displayed; an
\* exception in flight is always on its way to being reported; and until one
\* of the two outcomes is reached the run is at a statement whose step is
\* enabled (the two loops are within their ranges).
C8_OrderedStagesOneOutcome ==
  /\ IsPrefix(trace, Stages)
  /\ Len(trace) < 2 => ~last_call.made /\ sol = <<>>
  /\ Len(trace) < 3 => fig_traces = <<>> /\ fig_frames = <<>>
  /\ Len(trace) < 4 => ~displayed /\ pc # "displayed"
  /\ exc # NoExc <=> pc \in {"except", "reported"}
  /\ pc = "except" => errors = <<>> /\ ~displayed
  /\ pc = "reported" => Len(errors) = 1 /\ ~displayed /\ Len(trace) < 4
                        /\ errors[1] = <<"Equation", "Error:">> \o exc.msg
  /\ pc = "displayed" => displayed /\ errors = <<>> /\ trace = Stages
  /\ pc \notin {"except", "reported", "displayed"} => errors = <<>> /\ ~displayed
  /\ pc \in {"sample_U", "sample_V", "odeint", "solve", "quiver", "trajectory", "frames",
             "chart", "except", "reported", "displayed"}
  /\ pc = "solve" => Len(ode_buf) >= 1 /\ Len(ode_buf) <= frames
  /\ pc = "frames" => Len(animation_frames) <= frames
C8_Witness ==
  /\ pc = "reported"
  /\ trace = <<"sample", "integrate", "build">>
  /\ sol # <<>>
  /\ Len(errors) = 1

\* C9: the figure shown has one frame per sample: frame i is labelled with the
\* decimal form of i and holds the single state sol[i].
C9_OneFramePerSample ==
  pc \in {"chart", "displayed"} =>
    /\ Len(sol) = frames
    /\ Len(fig_frames) = frames
    /\ \A i \in 0 .. frames - 1 :
         /\ fig_frames[i + 1].name = Label(i)
         /\ fig_frames[i + 1].x = <<sol[i + 1][1]>>
         /\ fig_frames[i + 1].y = <<sol[i + 1][2]>>
C9_Witness ==
  /\ pc = "displayed"
  /\ frames = MaxFrames
  /\ \A i, j \in 1 .. Len(sol) : i # j => sol[i] # sol[j]

\* C10 as stated: a press of Play while no frame is waiting (at the start,
\* after a Pause, after the last frame) starts the animation at frame 0.
C10_PlayStartsAtFrameZero ==
  (last_press.button = "Play" /\ last_press.pending = 0) =>
     Head(last_press.enqueued) = "0"

\* Position of the frame labelled n among the frames of the figure.
C10_Position(n) == CHOOSE i \in 0 .. frames - 1 : Label(i) = n
C10_Start ==
  IF last_press.at = "" \/ C10_Position(last_press.at) \in {0, frames - 1}
  THEN 0 ELSE C10_Position(last_press.at) + 1

\* C10 as amended: a press of Play enqueues the frames in increasing order up
\* to the last one, from frame 0 when the chart shows no frame, the first or
\* the last frame, and otherwise from the frame after the one shown.
C10_PlayResumesMidStream ==
  last_press.button = "Play" =>
    last_press.enqueued = [k \in 1 .. frames - C10_Start |-> Label(C10_Start + k - 1)]
C10_Witness ==
  /\ last_press.button = "Play"
  /\ last_press.pending = 0
  /\ last_press.at = "1"
  /\ Head(last_press.enqueued) = "2"
  /\ queue = last_press.enqueued
====
